---- MODULE Spec2Model ----
(***************************************************************************)
(* taskl: a Python client of the TaskWarrior command `task`.               *)
(*                                                                         *)
(* The model covers src/taskl/taskwarrior.py (class TaskWarrior),          *)
(* src/taskl/task/task.py (class Task) and src/taskl/utils.py.             *)
(* One TaskWarrior object is modelled.  Each public method is one action   *)
(* that runs the whole method against the answers of the external process  *)
(* (exit code, stdout, stderr), which are drawn from small sets.  The      *)
(* caller then takes the outcome (action Return) and the object is idle    *)
(* again.                                                                  *)
(***************************************************************************)
EXTENDS Integers, Sequences, FiniteSets, TLC

(***************************************************************************)
(* Bounds of the model.                                                    *)
(***************************************************************************)
\* longest export (number of raw records) the external process prints
MaxRecords == 2
\* longest stdout (number of symbols) the add process prints
MaxLen == 3

(***************************************************************************)
(* Python values.  A value is None, an int or a str.  A str is a sequence  *)
(* of symbols; a symbol is one character ("4", "-", " ") or a chunk of     *)
(* text that holds no digit, sign, underscore or blank ("Buy milk").       *)
(***************************************************************************)
None == [k |-> "none", n |-> 0, s |-> <<>>]

IntV(n) == [k |-> "int", n |-> n, s |-> <<>>]

StrV(s) == [k |-> "str", n |-> 0, s |-> s]

Text(t) == StrV(<<t>>)

\* Python truth value of a value: None, 0 and '' are false
Truthy(v) == \/ v.k = "int" /\ v.n # 0
             \/ v.k = "str" /\ v.s # <<>>

DecimalDigits == <<"0", "1", "2", "3", "4", "5", "6", "7", "8", "9">>

IsDigit(c) == \E i \in 1..Len(DecimalDigits) : DecimalDigits[i] = c

RECURSIVE Decimal(_)
Decimal(n) == IF n < 0 THEN <<"-">> \o Decimal(0 - n)
              ELSE IF n < 10 THEN <<DecimalDigits[n + 1]>>
              ELSE Decimal(n \div 10) \o <<DecimalDigits[(n % 10) + 1]>>

\* str(v): the decimal digits of an int, a str itself, 'None' for None
Str(v) == CASE v.k = "int" -> StrV(Decimal(v.n))
            [] v.k = "none" -> Text("None")
            [] OTHER -> v

RECURSIVE LStrip(_)
LStrip(s) == IF s # <<>> /\ Head(s) = " " THEN LStrip(Tail(s)) ELSE s

RECURSIVE RStrip(_)
RStrip(s) == IF s # <<>> /\ s[Len(s)] = " "
             THEN RStrip(SubSeq(s, 1, Len(s) - 1)) ELSE s

\* int(s) of a str succeeds: blanks around, an optional sign, then digits,
\* with single underscores allowed between two digits
IntParseableStr(s) ==
    LET t == RStrip(LStrip(s))
        b == IF t # <<>> /\ Head(t) \in {"-", "+"} THEN Tail(t) ELSE t
    IN  /\ b # <<>>
        /\ \A i \in 1..Len(b) :
              \/ IsDigit(b[i])
              \/ /\ b[i] = "_"
                 /\ 1 < i /\ i < Len(b)
                 /\ IsDigit(b[i - 1]) /\ IsDigit(b[i + 1])

\* what int(v) does: "ok", or the exception it raises
IntOf(v) == CASE v.k = "int" -> "ok"
              [] v.k = "str" -> IF IntParseableStr(v.s) THEN "ok" ELSE "ValueError"
              [] OTHER -> "TypeError"

(***************************************************************************)
(* Task (src/taskl/task/task.py).  A raw record, the keyword arguments of  *)
(* Task(...), is a record of values in which None stands for an absent     *)
(* key, which is what kwargs.get reads.  The model keeps the fields the    *)
(* methods of TaskWarrior and Task.add read: description, project,         *)
(* priority, due, status, parent, uuid and id, and the timestamps start,   *)
(* end, entry and modified, annotations and wait.  urgency, recur, rtype,  *)
(* mask and imask are copied like priority and are left out.               *)
(***************************************************************************)
\* timestamps datetime.fromisoformat accepts
IsoStamps == {"20240101T000000Z", "20240105T120000Z", "20240201T000000Z"}

\* an attribute __init__ never assigned: reading it raises AttributeError
Unset == [k |-> "unset", n |-> 0, s |-> <<>>]

\* datetime.fromisoformat(v) succeeds
IsoParseable(v) == v.k = "str" /\ Len(v.s) = 1 /\ v.s[1] \in IsoStamps

\* the datetime that datetime.fromisoformat(v) returns
FromIso(v) == [k |-> "datetime", n |-> 0, s |-> v.s]

\* the identifier falls back to the uuid only when id is None
ResolvedId_only_none(kwargs) == IF kwargs.id = None THEN kwargs.uuid ELSE kwargs.id

\* Task.__init__: the resolved identifier
ResolvedId(kwargs) == IF ~Truthy(kwargs.id) THEN kwargs.uuid ELSE kwargs.id

\* Task.__init__: active is set when int(self.id) raises nothing
IsActive(id) == IntOf(id) = "ok"

\* Task.__init__ raises ValueError: start, end, entry or modified is given
\* and datetime.fromisoformat rejects it
TaskInitRaises(kwargs) ==
    \/ Truthy(kwargs.start) /\ ~IsoParseable(kwargs.start)
    \/ Truthy(kwargs.end) /\ ~IsoParseable(kwargs.end)
    \/ Truthy(kwargs.entry) /\ ~IsoParseable(kwargs.entry)
    \/ Truthy(kwargs.modified) /\ ~IsoParseable(kwargs.modified)

\* The attributes of the Task that Task(**kwargs) builds.  The parameter
\* annotations of __init__ takes the key 'annotations', so kwargs never holds
\* it and kwargs.get('annotations') is None; wait is never read.
TaskInit(kwargs) ==
    [description |-> kwargs.description,
     project     |-> kwargs.project,
     annotations |-> None,
     priority    |-> kwargs.priority,
     start       |-> IF Truthy(kwargs.start) THEN FromIso(kwargs.start)
                     ELSE kwargs.start,
     end         |-> IF Truthy(kwargs.end) THEN FromIso(kwargs.end)
                     ELSE kwargs.end,
     entry       |-> IF Truthy(kwargs.entry) THEN FromIso(kwargs.entry)
                     ELSE Unset,
     modified    |-> IF Truthy(kwargs.modified) THEN FromIso(kwargs.modified)
                     ELSE Unset,
     wait        |-> Unset,
     due         |-> IF Truthy(kwargs.due) /\ IsoParseable(kwargs.due)
                     THEN FromIso(kwargs.due) ELSE kwargs.due,
     status      |-> kwargs.status,
     parent      |-> kwargs.parent,
     uuid        |-> kwargs.uuid,
     id          |-> ResolvedId(kwargs),
     active      |-> IsActive(ResolvedId(kwargs))]

\* a raw record with the given fields, the others absent
Raw(description, status, id, uuid, project) ==
    [description |-> description, project |-> project, annotations |-> None,
     priority |-> None, start |-> None, end |-> None, entry |-> None,
     modified |-> None, wait |-> None, due |-> None, status |-> status,
     parent |-> None, uuid |-> uuid, id |-> id]

(***************************************************************************)
(* The external process.  subprocess.run(cmd, capture_output=True,         *)
(* text=True) starts the process and waits for it; its answer is the exit  *)
(* code, stdout and stderr.  The stdout of an export is kept as the list   *)
(* of raw records that ast.literal_eval reads from it.                     *)
(***************************************************************************)
\* run raises TypeError before it starts a process when an argument of the
\* command line is not a str (None from which(), or an int identifier)
RunRaises(cmd) == \E i \in 1..Len(cmd) : cmd[i].k # "str"

\* one finished invocation: the command line and the answer of the process
Call(cmd, answer) == [cmd |-> cmd, rc |-> answer.rc, stdout |-> answer.stdout,
                      records |-> answer.records, stderr |-> answer.stderr]

\* how a method call ends
Return(kind, tasks, data) ==
    [outcome |-> "return", exc |-> "", msg |-> None,
     kind |-> kind, tasks |-> tasks, data |-> data]

Raise(exc, msg) ==
    [outcome |-> "raise", exc |-> exc, msg |-> msg,
     kind |-> "", tasks |-> <<>>, data |-> <<>>]

NoOutcome ==
    [outcome |-> "none", exc |-> "", msg |-> None,
     kind |-> "", tasks |-> <<>>, data |-> <<>>]

(***************************************************************************)
(* TaskWarrior (src/taskl/taskwarrior.py).  Each operator is one method:   *)
(* from the resolved command, the arguments and the answer of the process  *)
(* it gives the outcome, the invocations made and, for get_all_tasks, the  *)
(* working set the method leaves.                                          *)
(***************************************************************************)
task_export(task_cmd, id, answer) ==
    LET cmd == IF Truthy(id) THEN <<task_cmd, Str(id), Text("export")>>
               ELSE <<task_cmd, Text("export")>>
    IN  IF RunRaises(cmd)
        THEN [result |-> Raise("TypeError", None), calls |-> <<>>]
        ELSE [result |->
                 IF answer.rc # 0
                 THEN IF answer.rc = 127
                      THEN Raise("TaskCommandNotFound", answer.stderr)
                      ELSE Raise("ErrorRunningTaskCommand", answer.stderr)
                 ELSE IF Len(answer.records) >= 1
                      THEN Return("data", <<>>, answer.records)
                      ELSE Return("None", <<>>, <<>>),
              calls |-> <<Call(cmd, answer)>>]

\* Task(**task_data) for each record of data, in order
Tasks(data) == [i \in 1..Len(data) |-> TaskInit(data[i])]

get_all_tasks(task_cmd, include_deleted, answer) ==
    LET e == task_export(task_cmd, None, answer)
        listed == SelectSeq(e.result.data,
                      LAMBDA r : ~(include_deleted = FALSE
                                   /\ r.status = Text("deleted")))
        working == SelectSeq(listed, LAMBDA r : ~(r.id = IntV(0)))
    IN  IF e.result.outcome = "raise"
        THEN [result |-> e.result, calls |-> e.calls, working_set |-> <<>>]
        ELSE IF e.result.kind = "None"
        THEN \* len(None)
             [result |-> Raise("TypeError", None), calls |-> e.calls,
              working_set |-> <<>>]
        ELSE [result |-> Return("list", Tasks(listed), <<>>),
              calls |-> e.calls, working_set |-> Tasks(working)]

\* get_pending_tasks, get_recurring_tasks, get_completed_tasks and
\* get_deleted_tasks: get_all_tasks, then the tasks of one status
tasks_of_status(task_cmd, status, include_deleted, answer) ==
    LET g == get_all_tasks(task_cmd, include_deleted, answer)
    IN  IF g.result.outcome = "raise" THEN g
        ELSE [g EXCEPT !.result =
                 Return("list",
                        SelectSeq(g.result.tasks,
                                  LAMBDA t : t.status = Text(status)),
                        <<>>)]

\* the elements of seq, each once
Range(seq) == {seq[i] : i \in 1..Len(seq)}

\* list(set(...)) of the projects: order is some enumeration of the set
get_projects(task_cmd, answer, order) ==
    LET g == get_all_tasks(task_cmd, FALSE, answer)
    IN  IF g.result.outcome = "raise" THEN g
        ELSE [g EXCEPT !.result = Return("projects", <<>>, order)]

\* the set that get_projects turns into a list
ProjectSet(tasks) == {tasks[i].project : i \in 1..Len(tasks)} \ {None}

\* get_project_tasks that never narrows to the pending tasks
get_project_tasks_all(task_cmd, project, only_pending, answer) ==
    LET g == get_all_tasks(task_cmd, FALSE, answer)
    IN  IF g.result.outcome = "raise" THEN g
        ELSE [g EXCEPT !.result =
                 Return("list",
                        SelectSeq(g.result.tasks, LAMBDA t : t.project = project),
                        <<>>)]

get_project_tasks(task_cmd, project, only_pending, answer) ==
    LET g == IF only_pending
             THEN tasks_of_status(task_cmd, "pending", FALSE, answer)
             ELSE get_all_tasks(task_cmd, FALSE, answer)
    IN  IF g.result.outcome = "raise" THEN g
        ELSE [g EXCEPT !.result =
                 Return("list",
                        SelectSeq(g.result.tasks, LAMBDA t : t.project = project),
                        <<>>)]

get_child_tasks(task_cmd, uuid, answer) ==
    LET g == get_all_tasks(task_cmd, FALSE, answer)
    IN  IF g.result.outcome = "raise" THEN g
        ELSE [g EXCEPT !.result =
                 Return("list",
                        SelectSeq(g.result.tasks, LAMBDA t : t.parent = uuid),
                        <<>>)]

get_tasks_without_project(task_cmd, only_pending, answer) ==
    LET g == IF only_pending
             THEN tasks_of_status(task_cmd, "pending", FALSE, answer)
             ELSE get_all_tasks(task_cmd, FALSE, answer)
    IN  IF g.result.outcome = "raise" THEN g
        ELSE [g EXCEPT !.result =
                 Return("list",
                        SelectSeq(g.result.tasks,
                                  LAMBDA t : t.project = StrV(<<>>)
                                             \/ t.project = None),
                        <<>>)]

get_task(task_cmd, id, answer) ==
    LET e == task_export(task_cmd, id, answer)
    IN  IF e.result.outcome = "raise" THEN e
        ELSE IF e.result.kind = "data"
        THEN [e EXCEPT !.result =
                 Return("Task", <<TaskInit(e.result.data[1])>>, <<>>)]
        ELSE [e EXCEPT !.result = Return("None", <<>>, <<>>)]

\* complete_task that takes exit code 1 for success
complete_task_exit1_ok(task_cmd, id, answer) ==
    LET cmd == <<task_cmd, id, Text("done")>>
    IN  IF RunRaises(cmd)
        THEN [result |-> Raise("TypeError", None), calls |-> <<>>]
        ELSE [result |->
                 IF answer.rc # 0 /\ answer.rc = 127
                 THEN Raise("TaskCommandNotFound", answer.stderr)
                 ELSE Return("True", <<>>, <<>>),
              calls |-> <<Call(cmd, answer)>>]

complete_task(task_cmd, id, answer) ==
    LET cmd == <<task_cmd, id, Text("done")>>
    IN  IF RunRaises(cmd)
        THEN [result |-> Raise("TypeError", None), calls |-> <<>>]
        ELSE [result |->
                 IF answer.rc # 0 /\ answer.rc = 127
                 THEN Raise("TaskCommandNotFound", answer.stderr)
                 ELSE IF answer.rc # 0 /\ answer.rc = 1
                 THEN Raise("NoTaskGiven", answer.stderr)
                 ELSE Return("True", <<>>, <<>>),
              calls |-> <<Call(cmd, answer)>>]

delete_task(task_cmd, id, answer) ==
    LET cmd == <<task_cmd, id, Text("delete")>>
    IN  IF RunRaises(cmd)
        THEN [result |-> Raise("TypeError", None), calls |-> <<>>]
        ELSE [result |->
                 IF answer.rc # 0 /\ answer.rc = 127
                 THEN Raise("TaskCommandNotFound", answer.stderr)
                 ELSE IF answer.rc # 0 /\ answer.rc = 1
                 THEN Raise("NoTaskGiven", answer.stderr)
                 ELSE Return("True", <<>>, <<>>),
              calls |-> <<Call(cmd, answer)>>]

(***************************************************************************)
(* Task.add (src/taskl/task/task.py): the add process, then the export of  *)
(* the identifier read from its stdout.                                    *)
(***************************************************************************)
\* the longest run of digits at the head of s
RECURSIVE DigitRun(_)
DigitRun(s) == IF s # <<>> /\ IsDigit(Head(s))
               THEN <<Head(s)>> \o DigitRun(Tail(s)) ELSE <<>>

\* re.findall(r'\d', s): every digit of s on its own
RECURSIVE FindAllDigits_single(_)
FindAllDigits_single(s) ==
    IF s = <<>> THEN <<>>
    ELSE IF IsDigit(Head(s))
    THEN <<<<Head(s)>>>> \o FindAllDigits_single(Tail(s))
    ELSE FindAllDigits_single(Tail(s))

\* re.findall(r'\d+', s): the maximal runs of digits of s, left to right
RECURSIVE FindAllDigits(_)
FindAllDigits(s) ==
    IF s = <<>> THEN <<>>
    ELSE IF IsDigit(Head(s))
    THEN <<DigitRun(s)>> \o FindAllDigits(SubSeq(s, Len(DigitRun(s)) + 1, Len(s)))
    ELSE FindAllDigits(Tail(s))

\* f'{key}{value}'
Option(key, value) == StrV(<<key>> \o Str(value).s)

task_opts(self) ==
    (IF Truthy(self.description) THEN <<self.description>> ELSE <<>>)
    \o (IF Truthy(self.project) THEN <<Option("project:", self.project)>> ELSE <<>>)
    \o (IF Truthy(self.due) THEN <<Option("due:", self.due)>> ELSE <<>>)
    \o (IF Truthy(self.priority) THEN <<Option("priority:", self.priority)>> ELSE <<>>)

\* add_export that takes the first record of an export of several
add_export_first_of_many(task_cmd, add_call, export_answer) ==
    LET task_id == FindAllDigits(add_call.stdout)
        cmd_export == <<task_cmd, Str(StrV(task_id[1])), Text("export")>>
    IN  IF task_id = <<>>
        THEN [result |-> Raise("IndexError", None), calls |-> <<add_call>>]
        ELSE IF IntOf(StrV(task_id[1])) = "ValueError"
        THEN [result |-> Raise("ErrorAddingNewTask", add_call.stderr),
              calls |-> <<add_call>>]
        ELSE IF RunRaises(cmd_export)
        THEN [result |-> Raise("TypeError", None), calls |-> <<add_call>>]
        ELSE [result |->
                 IF export_answer.rc # 0
                 THEN IF export_answer.rc = 127
                      THEN Raise("TaskCommandNotFound", export_answer.stderr)
                      ELSE Raise("ErrorRunningTaskCommand", export_answer.stderr)
                 ELSE IF Len(export_answer.records) >= 1
                      THEN Return("Task", <<TaskInit(export_answer.records[1])>>, <<>>)
                      ELSE Raise("ErrorAddingNewTask", export_answer.stderr),
              calls |-> <<add_call, Call(cmd_export, export_answer)>>]

\* the second half of Task.add, from the stdout of the add process on
add_export(task_cmd, add_call, export_answer) ==
    LET task_id == FindAllDigits(add_call.stdout)
        cmd_export == <<task_cmd, Str(StrV(task_id[1])), Text("export")>>
    IN  IF task_id = <<>>
        THEN \* task_id[0] of an empty list
             [result |-> Raise("IndexError", None), calls |-> <<add_call>>]
        ELSE IF IntOf(StrV(task_id[1])) = "ValueError"
        THEN [result |-> Raise("ErrorAddingNewTask", add_call.stderr),
              calls |-> <<add_call>>]
        ELSE IF RunRaises(cmd_export)
        THEN [result |-> Raise("TypeError", None), calls |-> <<add_call>>]
        ELSE [result |->
                 IF export_answer.rc # 0
                 THEN IF export_answer.rc = 127
                      THEN Raise("TaskCommandNotFound", export_answer.stderr)
                      ELSE Raise("ErrorRunningTaskCommand", export_answer.stderr)
                 ELSE IF Len(export_answer.records) = 1
                      THEN Return("Task", <<TaskInit(export_answer.records[1])>>, <<>>)
                      ELSE Raise("ErrorAddingNewTask", export_answer.stderr),
              calls |-> <<add_call, Call(cmd_export, export_answer)>>]

\* add that runs the add process again when it failed
add_retries(self, task_cmd, add_answer, export_answer) ==
    LET cmd_add == <<task_cmd, Text("add")>> \o task_opts(self)
    IN  IF RunRaises(cmd_add)
        THEN [result |-> Raise("TypeError", None), calls |-> <<>>]
        ELSE IF add_answer.rc # 0
        THEN [result |->
                 IF add_answer.rc = 127
                 THEN Raise("TaskCommandNotFound", add_answer.stderr)
                 ELSE Raise("ErrorRunningTaskCommand", add_answer.stderr),
              calls |-> <<Call(cmd_add, add_answer), Call(cmd_add, add_answer)>>]
        ELSE add_export(task_cmd, Call(cmd_add, add_answer), export_answer)

add(self, task_cmd, add_answer, export_answer) ==
    LET cmd_add == <<task_cmd, Text("add")>> \o task_opts(self)
    IN  IF RunRaises(cmd_add)
        THEN [result |-> Raise("TypeError", None), calls |-> <<>>]
        ELSE IF add_answer.rc # 0
        THEN [result |->
                 IF add_answer.rc = 127
                 THEN Raise("TaskCommandNotFound", add_answer.stderr)
                 ELSE Raise("ErrorRunningTaskCommand", add_answer.stderr),
              calls |-> <<Call(cmd_add, add_answer)>>]
        ELSE add_export(task_cmd, Call(cmd_add, add_answer), export_answer)

add_task(kwargs, task_cmd, add_answer, export_answer) ==
    add(TaskInit(kwargs), task_cmd, add_answer, export_answer)

(***************************************************************************)
(* The environment: what shutil.which and the task process can answer.     *)
(***************************************************************************)
\* TasklUtils.get_task_command: the path of task, or None when which()
\* finds no such command
TaskPath == Text("/usr/bin/task")

get_task_command == {None, TaskPath}

\* exit codes of the process: success, no such task, any other failure,
\* command not found
ExitCodes == {0, 1, 2, 127}

Uuid1 == StrV(<<"a1b2", "-", "4", "c", "-", "9">>)

Uuid2 == StrV(<<"7", "f", "-", "0", "e">>)

\* the raw records task export prints
ExportRecords ==
    { Raw(Text("Buy milk"), Text("pending"), IntV(1), Uuid1, Text("Home")),
      Raw(Text("Buy milk"), Text("pending"), StrV(<<"4", "2">>), Uuid2, None),
      Raw(Text("Call mom"), Text("completed"), IntV(0), Uuid2, Text("Home")),
      Raw(Text("Fix bike"), Text("deleted"), IntV(0), Uuid1, None),
      Raw(Text("Call mom"), Text("completed"), None, Uuid2, None),
      [Raw(Text("Water plants"), Text("waiting"), IntV(2), Uuid2, StrV(<<>>))
          EXCEPT !.wait = Text("20240101T000000Z"), !.parent = Uuid1],
      [Raw(Text("Water plants"), Text("waiting"), IntV(3), Uuid1, None)
          EXCEPT !.wait = Text("20240201T000000Z")] }

Exports == UNION {[1..n -> ExportRecords] : n \in 0..MaxRecords}

StdoutSymbols == {"4", "2", "."}

Stdouts == UNION {[1..n -> StdoutSymbols] : n \in 0..MaxLen}

\* the stderr of a process names the process that wrote it
Answer(verb, rc, stdout, records) ==
    [rc |-> rc, stdout |-> stdout, records |-> records,
     stderr |-> StrV(<<"task ", verb, ": ">> \o Decimal(rc))]

ExportAnswers ==
    {Answer("export", 0, <<>>, data) : data \in Exports}
    \cup {Answer("export", rc, <<>>, <<>>) : rc \in ExitCodes \ {0}}

\* the export of the identifier of a task just added prints tasks that hold
\* an id: pending ones, or one completed in the meantime
AddedRecords ==
    {r \in ExportRecords :
        r.status \in {Text("pending"), Text("completed")} /\ r.id # None}

AddedExportAnswers ==
    {Answer("export", 0, <<>>, data) :
        data \in UNION {[1..n -> AddedRecords] : n \in 0..MaxRecords}}
    \cup {Answer("export", rc, <<>>, <<>>) : rc \in ExitCodes \ {0}}

AddAnswers ==
    {Answer("add", 0, out, <<>>) : out \in Stdouts}
    \cup {Answer("add", rc, <<>>, <<>>) : rc \in ExitCodes \ {0}}

DoneAnswers == {Answer("done", rc, <<>>, <<>>) : rc \in ExitCodes}

DeleteAnswers == {Answer("delete", rc, <<>>, <<>>) : rc \in ExitCodes}

\* identifiers callers pass: an active id as int or as str, 0, a uuid, None
Ids == {IntV(1), StrV(<<"4", "2">>), IntV(0), Uuid1, None}

\* project names callers ask for
Projects == {Text("Home"), Text("Work")}

\* keyword arguments callers build a Task from
KwIds == {None, IntV(0), IntV(1), IntV(42), StrV(<<>>), StrV(<<"0">>),
          StrV(<<"4", "2">>), StrV(<<" ", "7">>)}

KwUuids == {None, Uuid1, Uuid2}

\* the optional fields a caller may give or leave out
OptionalFields == {"entry", "modified", "start", "end", "due", "annotations",
                   "id", "uuid"}

Stamp == Text("20240105T120000Z")

\* a list of one annotation
Annotations == [k |-> "list", n |-> 0, s |-> <<"Bought oat milk">>]

\* the record that holds a value for the fields of present and no other
WithFields(present) ==
    LET v(f, value) == IF f \in present THEN value ELSE None
    IN  [Raw(Text("Buy milk"), None, v("id", IntV(1)), v("uuid", Uuid1), None)
            EXCEPT !.entry = v("entry", Stamp),
                   !.modified = v("modified", Stamp),
                   !.start = v("start", Stamp),
                   !.end = v("end", Stamp),
                   !.due = v("due", Stamp),
                   !.annotations = v("annotations", Annotations)]

Kwargs ==
    {[Raw(Text("Buy milk"), st, id, uuid, None) EXCEPT !.due = due] :
        st \in {None, Text("pending"), Text("completed")},
        id \in KwIds, uuid \in KwUuids,
        due \in {None, Text("tomorrow"), Text("20240105T120000Z")}}
    \cup {WithFields(present) : present \in SUBSET OptionalFields}
    \cup {[Raw(Text("Buy milk"), None, None, None, None)
              EXCEPT !.start = Text("soon")]}

\* the descriptions of new tasks callers hand to add_task
NewTasks ==
    {[Raw(Text("Buy milk"), None, None, None, None) EXCEPT !.due = Text("tomorrow")],
     [Raw(Text("Pay rent"), None, None, None, Text("Home")) EXCEPT !.priority = Text("H")]}

(***************************************************************************)
(* State.                                                                  *)
(***************************************************************************)
\* working_set: TaskWarrior.working_set
\* op: the method called and its arguments; "idle" between calls
\* task_command: what get_task_command returned to the call
\* calls: the invocations of the external process the call made
\* result: how the call ended
VARIABLES working_set, op, task_command, calls, result

vars == <<working_set, op, task_command, calls, result>>

Idle == [name |-> "idle", id |-> None, include_deleted |-> FALSE, kwargs |-> <<>>,
         project |-> None, only_pending |-> FALSE]

Op(name, id, include_deleted, kwargs) ==
    [name |-> name, id |-> id, include_deleted |-> include_deleted,
     kwargs |-> kwargs, project |-> None, only_pending |-> FALSE]

\* a call of a query by project or by parent
Query(name, project, only_pending, uuid) ==
    [Op(name, uuid, FALSE, <<>>) EXCEPT !.project = project,
                                        !.only_pending = only_pending]

Init ==
    /\ working_set = <<>>
    /\ op = Idle
    /\ task_command = None
    /\ calls = <<>>
    /\ result = NoOutcome

\* a method that empties working_set when it ends
Ends_clears(o, task_cmd, r) ==
    /\ op' = o
    /\ task_command' = task_cmd
    /\ calls' = r.calls
    /\ result' = r.result
    /\ working_set' = <<>>

\* a method that leaves working_set alone ends with outcome r
Ends(o, task_cmd, r) ==
    /\ op' = o
    /\ task_command' = task_cmd
    /\ calls' = r.calls
    /\ result' = r.result
    /\ UNCHANGED working_set

\* a method built on get_all_tasks ends with outcome r
EndsFetch(o, task_cmd, r) ==
    /\ op' = o
    /\ task_command' = task_cmd
    /\ calls' = r.calls
    /\ result' = r.result
    /\ working_set' = r.working_set

NewTask ==
    /\ op.name = "idle"
    /\ \E kwargs \in Kwargs :
          Ends(Op("Task", None, FALSE, <<kwargs>>), None,
               [result |-> IF TaskInitRaises(kwargs)
                           THEN Raise("ValueError", None)
                           ELSE Return("Task", <<TaskInit(kwargs)>>, <<>>),
                calls |-> <<>>])

TaskExport ==
    /\ op.name = "idle"
    /\ \E task_cmd \in get_task_command, id \in Ids, answer \in ExportAnswers :
          Ends(Op("task_export", id, FALSE, <<>>), task_cmd,
               task_export(task_cmd, id, answer))

GetAllTasks ==
    /\ op.name = "idle"
    /\ \E task_cmd \in get_task_command, include_deleted \in BOOLEAN,
          answer \in ExportAnswers :
          EndsFetch(Op("get_all_tasks", None, include_deleted, <<>>), task_cmd,
                    get_all_tasks(task_cmd, include_deleted, answer))

GetPendingTasks ==
    /\ op.name = "idle"
    /\ \E task_cmd \in get_task_command, answer \in ExportAnswers :
          EndsFetch(Op("get_pending_tasks", None, FALSE, <<>>), task_cmd,
                    tasks_of_status(task_cmd, "pending", FALSE, answer))

GetRecurringTasks ==
    /\ op.name = "idle"
    /\ \E task_cmd \in get_task_command, answer \in ExportAnswers :
          EndsFetch(Op("get_recurring_tasks", None, FALSE, <<>>), task_cmd,
                    tasks_of_status(task_cmd, "recurring", FALSE, answer))

GetCompletedTasks ==
    /\ op.name = "idle"
    /\ \E task_cmd \in get_task_command, answer \in ExportAnswers :
          EndsFetch(Op("get_completed_tasks", None, FALSE, <<>>), task_cmd,
                    tasks_of_status(task_cmd, "completed", FALSE, answer))

GetDeletedTasks ==
    /\ op.name = "idle"
    /\ \E task_cmd \in get_task_command, answer \in ExportAnswers :
          EndsFetch(Op("get_deleted_tasks", None, TRUE, <<>>), task_cmd,
                    tasks_of_status(task_cmd, "deleted", TRUE, answer))

GetProjects ==
    /\ op.name = "idle"
    /\ \E task_cmd \in get_task_command, answer \in ExportAnswers :
          LET found == ProjectSet(get_all_tasks(task_cmd, FALSE, answer).result.tasks)
          IN  \E order \in [1..Cardinality(found) -> found] :
                 /\ Range(order) = found
                 /\ EndsFetch(Op("get_projects", None, FALSE, <<>>), task_cmd,
                              get_projects(task_cmd, answer, order))

GetProjectTasks ==
    /\ op.name = "idle"
    /\ \E task_cmd \in get_task_command, project \in Projects,
          only_pending \in BOOLEAN, answer \in ExportAnswers :
          EndsFetch(Query("get_project_tasks", project, only_pending, None),
                    task_cmd,
                    get_project_tasks(task_cmd, project, only_pending, answer))

GetChildTasks ==
    /\ op.name = "idle"
    /\ \E task_cmd \in get_task_command, uuid \in {Uuid1, Uuid2},
          answer \in ExportAnswers :
          EndsFetch(Query("get_child_tasks", None, FALSE, uuid), task_cmd,
                    get_child_tasks(task_cmd, uuid, answer))

GetTasksWithoutProject ==
    /\ op.name = "idle"
    /\ \E task_cmd \in get_task_command, only_pending \in BOOLEAN,
          answer \in ExportAnswers :
          EndsFetch(Query("get_tasks_without_project", None, only_pending, None),
                    task_cmd,
                    get_tasks_without_project(task_cmd, only_pending, answer))

GetTask ==
    /\ op.name = "idle"
    /\ \E task_cmd \in get_task_command, id \in Ids \ {None},
          answer \in ExportAnswers :
          Ends(Op("get_task", id, FALSE, <<>>), task_cmd,
               get_task(task_cmd, id, answer))

CompleteTask ==
    /\ op.name = "idle"
    /\ \E task_cmd \in get_task_command, id \in Ids \ {None},
          answer \in DoneAnswers :
          Ends(Op("complete_task", id, FALSE, <<>>), task_cmd,
               complete_task(task_cmd, id, answer))

DeleteTask ==
    /\ op.name = "idle"
    /\ \E task_cmd \in get_task_command, id \in Ids \ {None},
          answer \in DeleteAnswers :
          Ends(Op("delete_task", id, FALSE, <<>>), task_cmd,
               delete_task(task_cmd, id, answer))

AddTask ==
    /\ op.name = "idle"
    /\ \E task_cmd \in get_task_command, kwargs \in NewTasks,
          add_answer \in AddAnswers, export_answer \in AddedExportAnswers :
          Ends(Op("add_task", None, FALSE, <<kwargs>>), task_cmd,
               add_task(kwargs, task_cmd, add_answer, export_answer))

\* the caller takes the outcome; the object keeps its working set
Done ==
    /\ op.name # "idle"
    /\ op' = Idle
    /\ task_command' = None
    /\ calls' = <<>>
    /\ result' = NoOutcome
    /\ UNCHANGED working_set

Next ==
    \/ NewTask
    \/ TaskExport
    \/ GetAllTasks
    \/ GetPendingTasks
    \/ GetRecurringTasks
    \/ GetCompletedTasks
    \/ GetDeletedTasks
    \/ GetProjects
    \/ GetProjectTasks
    \/ GetChildTasks
    \/ GetTasksWithoutProject
    \/ GetTask
    \/ CompleteTask
    \/ DeleteTask
    \/ AddTask
    \/ Done

Spec == Init /\ [][Next]_vars

(***************************************************************************)
(* Properties.                                                             *)
(***************************************************************************)
\* the last invocation of the finished call
LastCall == calls[Len(calls)]

IsAddCall(c) == c.cmd[2] = Text("add")

IsExportCall(c) == ~IsAddCall(c) /\ c.cmd[Len(c.cmd)] = Text("export")

\* the methods that run the external process
ProcessOps == {"task_export", "get_all_tasks", "get_pending_tasks",
               "get_recurring_tasks", "get_completed_tasks",
               "get_deleted_tasks", "get_task", "complete_task",
               "delete_task", "add_task"}

Raised(exc, msg) == result.outcome = "raise" /\ result.exc = exc /\ result.msg = msg

\* C1: in task_export, both phases of Task.add, complete_task and
\* delete_task, a process that exits with a nonzero code other than 127
\* (and, for complete_task and delete_task, other than 1) makes the method
\* raise ErrorRunningTaskCommand with the stderr of the process; complete_task
\* and delete_task never return True for a nonzero exit code.
C1_OtherExitRaisesErrorRunning ==
    /\ (/\ op.name \in {"task_export", "add_task", "complete_task", "delete_task"}
        /\ calls # <<>>
        /\ LastCall.rc \notin {0, 127}
        /\ op.name \in {"complete_task", "delete_task"} => LastCall.rc # 1)
       => Raised("ErrorRunningTaskCommand", LastCall.stderr)
    /\ (/\ op.name \in {"complete_task", "delete_task"}
        /\ calls # <<>>
        /\ LastCall.rc # 0)
       => ~(result.outcome = "return" /\ result.kind = "True")

\* C2: complete_task and delete_task raise NoTaskGiven with the stderr of the
\* process when it exits 1 and return True when it exits 0; an export that
\* exits 1 raises ErrorRunningTaskCommand, not NoTaskGiven.
C2_ExitOneIsNoTaskGiven ==
    /\ (op.name \in {"complete_task", "delete_task"} /\ calls # <<>>)
       => /\ LastCall.rc = 1 => Raised("NoTaskGiven", LastCall.stderr)
          /\ LastCall.rc = 0 => result.outcome = "return" /\ result.kind = "True"
    /\ (calls # <<>> /\ IsExportCall(LastCall) /\ LastCall.rc = 1)
       => Raised("ErrorRunningTaskCommand", LastCall.stderr)

C2_Witness ==
    /\ op.name = "complete_task"
    /\ calls # <<>>
    /\ LastCall.rc = 1
    /\ Raised("NoTaskGiven", LastCall.stderr)

\* C3: when get_task_command finds no task binary (it returns None), every
\* operation ends by raising TaskCommandNotFound and in no other way.
C3_NoBinaryRaisesCommandNotFound ==
    (op.name \in ProcessOps /\ task_command = None)
       => result.outcome = "raise" /\ result.exc = "TaskCommandNotFound"

\* the add phase of the finished add_task ended well: exit code 0
AddPhaseOk == op.name = "add_task" /\ calls # <<>> /\ calls[1].rc = 0

HasDigit(s) == \E i \in 1..Len(s) : IsDigit(s[i])

\* C4: in Task.add, when the add process exits 0 and its stdout holds no
\* decimal digit, add raises ErrorAddingNewTask with the stderr of the add
\* process and does not run the export.
C4_NoDigitsRaisesErrorAdding ==
    (AddPhaseOk /\ ~HasDigit(calls[1].stdout))
       => /\ Raised("ErrorAddingNewTask", calls[1].stderr)
          /\ Len(calls) = 1

\* the export phase of the finished add_task ran and exited 0
ExportPhaseOk == AddPhaseOk /\ Len(calls) = 2 /\ calls[2].rc = 0

\* C5: in Task.add, after an add phase that succeeded and an export that
\* exits 0, exactly one exported record makes add return the Task built from
\* that record; zero records or more than one make add raise
\* ErrorAddingNewTask and return no Task.
C5_OneRecordOrErrorAdding ==
    ExportPhaseOk
       => IF Len(calls[2].records) = 1
          THEN /\ result.outcome = "return"
               /\ result.kind = "Task"
               /\ result.tasks = <<TaskInit(calls[2].records[1])>>
          ELSE /\ result.outcome = "raise"
               /\ result.exc = "ErrorAddingNewTask"
               /\ result.tasks = <<>>

C5_Witness ==
    /\ ExportPhaseOk
    /\ Len(calls[2].records) = 1
    /\ result.outcome = "return"
    /\ result.tasks # <<>>

\* C6: every public operation runs the external process at most once per
\* call, add_task at most twice (the add, then one export); the export of
\* add runs only after the add exited 0 and an identifier was read, add is
\* never run a second time, and no invocation follows a failed one.
C6_AtMostOneInvocation ==
    /\ op.name # "add_task" => Len(calls) <= 1
    /\ op.name = "add_task"
       => /\ Len(calls) <= 2
          /\ calls # <<>> => IsAddCall(calls[1])
          /\ Len(calls) = 2
             => /\ calls[1].rc = 0
                /\ HasDigit(calls[1].stdout)
                /\ IsExportCall(calls[2])
    /\ \A i \in 1..Len(calls) : i < Len(calls) => calls[i].rc = 0

C6_Witness ==
    /\ op.name = "add_task"
    /\ Len(calls) = 2
    /\ IsExportCall(calls[2])
    /\ calls[2].rc # 0
    /\ result.outcome = "raise"

\* s[i..j] is the first maximal run of digits of s
IsFirstDigitRun(s, i, j) ==
    /\ 1 <= i /\ i <= j /\ j <= Len(s)
    /\ \A x \in 1..Len(s) : x < i => ~IsDigit(s[x])
    /\ \A x \in i..j : IsDigit(s[x])
    /\ j < Len(s) => ~IsDigit(s[j + 1])

\* an active identifier: a positive int, or a str of digits that is not zero
IsPositiveId(v) ==
    \/ v.k = "int" /\ v.n > 0
    \/ /\ v.k = "str" /\ v.s # <<>>
       /\ \A i \in 1..Len(v.s) : IsDigit(v.s[i])
       /\ \E i \in 1..Len(v.s) : v.s[i] # "0"

\* C7: in a successful add_task the identifier handed to the export is the
\* first run of decimal digits of the stdout of the add, and the returned
\* Task has the fields of the exported record: when the id of the record is a
\* positive integer identifier, the Task has that id, is active and has the
\* description of the record.
C7_AddExportsFirstDigitRun ==
    (op.name = "add_task" /\ result.outcome = "return")
       => /\ Len(calls) = 2
          /\ Len(calls[2].cmd) = 3
          /\ calls[2].cmd[2].k = "str"
          /\ \E i, j \in 1..Len(calls[1].stdout) :
                /\ IsFirstDigitRun(calls[1].stdout, i, j)
                /\ calls[2].cmd[2].s = SubSeq(calls[1].stdout, i, j)
          /\ Len(calls[2].records) = 1
          /\ Len(result.tasks) = 1
          /\ IsPositiveId(calls[2].records[1].id)
             => /\ result.tasks[1].id = calls[2].records[1].id
                /\ result.tasks[1].active = TRUE
                /\ result.tasks[1].description = calls[2].records[1].description

\* a stdout with two runs of digits, and a record that differs from what the
\* caller asked for
C7_Witness ==
    /\ op.name = "add_task"
    /\ result.outcome = "return"
    /\ Len(FindAllDigits(calls[1].stdout)) = 2
    /\ IsPositiveId(calls[2].records[1].id)
    /\ result.tasks[1].active
    /\ op.kwargs[1].description # result.tasks[1].description
    /\ result.tasks[1].description = calls[2].records[1].description

\* the finished call is a get_all_tasks whose export exited 0
FetchedAll == op.name = "get_all_tasks" /\ calls # <<>> /\ calls[1].rc = 0

NotDeleted(data) == SelectSeq(data, LAMBDA r : r.status # Text("deleted"))

\* C8: get_all_tasks(include_deleted=False) returns one Task for each
\* exported record whose status is not 'deleted', in the order of the export,
\* and none for a deleted record; get_all_tasks(include_deleted=True) returns
\* one Task for each exported record.
C8_GetAllTasksListsRecords ==
    FetchedAll
       => /\ result.outcome = "return"
          /\ result.tasks = IF op.include_deleted
                            THEN Tasks(calls[1].records)
                            ELSE Tasks(NotDeleted(calls[1].records))

\* a record without an active identifier: id absent, 0 or empty
NoActiveId(r) == r.id \in {None, IntV(0), StrV(<<>>)}

FetchOps == {"get_all_tasks", "get_pending_tasks", "get_recurring_tasks",
             "get_completed_tasks", "get_deleted_tasks"}

\* C9: after any sequence of get_all_tasks calls and of the queries built on
\* it, every Task of working_set is active; the working set is the active
\* tasks of the last fetch, and no record without an active id (id absent or
\* 0) has a Task in working_set.
C9_WorkingSetIsActive ==
    /\ \A i \in 1..Len(working_set) : working_set[i].active = TRUE
    /\ (op.name \in FetchOps /\ calls # <<>> /\ result.outcome = "return")
       => /\ working_set =
                SelectSeq(Tasks(IF op.include_deleted THEN calls[1].records
                                ELSE NotDeleted(calls[1].records)),
                          LAMBDA t : t.active)
          /\ \A i \in 1..Len(calls[1].records) :
                NoActiveId(calls[1].records[i])
                   => \A j \in 1..Len(working_set) :
                         working_set[j] # TaskInit(calls[1].records[i])

\* C10: Task(...) resolves the identity: a positive integer id (int or str)
\* becomes the id of the Task, which is active; with id absent, 0 or empty
\* and a uuid, the id of the Task is the uuid and the Task is not active;
\* with neither, the id is unset and the Task is not active.  In every case
\* active holds exactly when int() accepts the resolved id.  The Task is the
\* one a construction yields: a construction that raises on a timestamp
\* yields none.
C10_TaskIdentity ==
    (op.name = "Task" /\ result.outcome = "return")
       => LET kwargs == op.kwargs[1]
              task == result.tasks[1]
          IN  /\ IsPositiveId(kwargs.id)
                 => task.id = kwargs.id /\ task.active = TRUE
              /\ (NoActiveId(kwargs) /\ kwargs.uuid # None)
                 => task.id = kwargs.uuid /\ task.active = FALSE
              /\ (NoActiveId(kwargs) /\ kwargs.uuid = None)
                 => task.id = None /\ task.active = FALSE
              /\ task.active <=>
                    \/ task.id.k = "int"
                    \/ task.id.k = "str" /\ IntParseableStr(task.id.s)

C10_Witness ==
    /\ op.name = "Task"
    /\ op.kwargs[1].id = IntV(0)
    /\ op.kwargs[1].uuid = Uuid1
    /\ result.tasks[1].id = Uuid1
    /\ result.tasks[1].active = FALSE

\* the attributes of a Task that hold a field of the raw record as it is
\* given, or its datetime
FieldAttributes == {"project", "annotations", "priority", "start", "end",
                    "entry", "modified", "due", "status", "parent", "uuid"}

\* the timestamps of the raw record are absent or well formed
WellFormed(kwargs) ==
    \A f \in {"start", "end", "entry", "modified"} :
       kwargs[f] = None \/ IsoParseable(kwargs[f])

\* C11: for every raw record with a description and any subset of the other
\* fields (entry, modified, start, end, due, annotations, id and uuid may all
\* be absent), Task(...) succeeds and every attribute of an absent field reads
\* as None instead of raising.
C11_AbsentFieldsReadNone ==
    (op.name = "Task" /\ WellFormed(op.kwargs[1]))
       => /\ result.outcome = "return"
          /\ \A f \in FieldAttributes :
                op.kwargs[1][f] = None => result.tasks[1][f] = None
          /\ (op.kwargs[1].id = None /\ op.kwargs[1].uuid = None)
                => result.tasks[1].id = None

\* the queries built on get_all_tasks
QueryOps == FetchOps \cup {"get_projects", "get_project_tasks",
                           "get_child_tasks", "get_tasks_without_project"}

\* the export of the finished query exited 0
ExportedOk == op.name \in QueryOps /\ calls # <<>> /\ calls[1].rc = 0

\* C12: when the export of all tasks exits 0 with zero records, get_all_tasks
\* returns an empty list and leaves working_set empty without raising, and so
\* do the queries by status and by project built on it.
C12_EmptyExportReturnsEmpty ==
    (ExportedOk /\ calls[1].records = <<>>)
       => /\ result.outcome = "return"
          /\ result.tasks = <<>>
          /\ result.data = <<>>
          /\ working_set = <<>>

\* the current time, and the timestamps in the order of time
Now == "20240105T120000Z"

StampOrder == <<"20240101T000000Z", "20240105T120000Z", "20240201T000000Z">>

StampIndex(t) == CHOOSE i \in 1..Len(StampOrder) : StampOrder[i] = t

\* the record is waiting and its wait is at or before now
WaitIsOver(r) ==
    /\ r.status = Text("waiting")
    /\ IsoParseable(r.wait)
    /\ StampIndex(r.wait.s[1]) <= StampIndex(Now)

\* C13: a Task read from a record with status 'waiting' whose wait is at or
\* before the current time has status 'pending' and no wait, so that
\* get_pending_tasks returns it; a waiting record whose wait is in the future
\* keeps status 'waiting'.
C13_WaitingBecomesPending ==
    /\ (op.name = "get_task" /\ result.outcome = "return" /\ result.kind = "Task")
       => LET r == calls[1].records[1]
              task == result.tasks[1]
          IN  /\ WaitIsOver(r)
                 => task.status = Text("pending") /\ task.wait = None
              /\ (r.status = Text("waiting") /\ ~WaitIsOver(r))
                 => task.status = Text("waiting")
    /\ (op.name = "get_pending_tasks" /\ result.outcome = "return")
       => Len(result.tasks) =
             Len(SelectSeq(calls[1].records,
                           LAMBDA r : r.status = Text("pending") \/ WaitIsOver(r)))

\* the single predicate of a query
Matches(t) ==
    CASE op.name = "get_project_tasks" -> t.project = op.project
      [] op.name = "get_child_tasks" -> t.parent = op.id
      [] op.name = "get_tasks_without_project" ->
            t.project = StrV(<<>>) \/ t.project = None
      [] op.name = "get_pending_tasks" -> t.status = Text("pending")
      [] op.name = "get_recurring_tasks" -> t.status = Text("recurring")
      [] op.name = "get_completed_tasks" -> t.status = Text("completed")
      [] op.name = "get_deleted_tasks" -> t.status = Text("deleted")

FilterOps == {"get_project_tasks", "get_child_tasks", "get_tasks_without_project",
              "get_pending_tasks", "get_recurring_tasks", "get_completed_tasks",
              "get_deleted_tasks"}

\* what a full get_all_tasks gives on the export the finished query read
FullFetch ==
    get_all_tasks(task_command, op.name = "get_deleted_tasks",
                  IF calls # <<>> THEN calls[1]
                  ELSE Answer("export", 0, <<>>, <<>>))

\* C14 as stated: get_project_tasks, get_child_tasks,
\* get_tasks_without_project and the queries by status each return exactly
\* the tasks of a full get_all_tasks result that satisfy the one predicate of
\* the query, with no other filter; get_project_tasks(name) with its defaults
\* returns every task of the project that is not deleted, whatever its status.
C14_QueriesFilterAllTasks ==
    (op.name \in FilterOps /\ result.outcome = "return")
       => result.tasks = SelectSeq(FullFetch.result.tasks, LAMBDA t : Matches(t))

\* C14 amended: each of these queries raises what get_all_tasks raises and
\* otherwise returns exactly the tasks of the full get_all_tasks result that
\* satisfy its predicate; get_project_tasks and get_tasks_without_project
\* called with only_pending=True, their default, keep only those of them
\* whose status is 'pending'.
C14_QueriesFilterPendingByDefault ==
    op.name \in FilterOps
       => IF FullFetch.result.outcome = "raise"
          THEN result = FullFetch.result
          ELSE /\ result.outcome = "return"
               /\ result.tasks =
                     SelectSeq(FullFetch.result.tasks,
                               LAMBDA t : /\ Matches(t)
                                          /\ op.only_pending
                                                => t.status = Text("pending"))

C14_Witness ==
    /\ op.name = "get_project_tasks"
    /\ op.only_pending
    /\ result.outcome = "return"
    /\ Len(result.tasks) = 1
    /\ Len(SelectSeq(FullFetch.result.tasks, LAMBDA t : Matches(t))) = 2

\* the methods that do not fetch all tasks
NoFetchOps == {"add_task", "complete_task", "delete_task", "get_task",
               "task_export"}

\* C15: only get_all_tasks, called by itself or by a query built on it,
\* writes working_set: add_task, complete_task, delete_task, get_task and
\* task_export leave it as it is, a snapshot of the last fetch; and since
\* get_all_tasks empties working_set before the export, a get_all_tasks that
\* raises leaves it empty, not as the snapshot before.
C15_WorkingSetFrame ==
    [][/\ op'.name \in NoFetchOps => working_set' = working_set
       /\ (op'.name \in QueryOps /\ result'.outcome = "raise")
             => working_set' = <<>>]_vars

\* a task was completed and the snapshot still lists tasks
C15_Witness ==
    /\ op.name = "complete_task"
    /\ result.outcome = "return"
    /\ working_set # <<>>

====
